---- MODULE Spec2Model ----
(***************************************************************************)
(* os.layer.preset.LayerPresetManager: the promise cache presets_, the     *)
(* requested-URL map requested_, and the default-preset policy.            *)
(*                                                                         *)
(* goog.Promise is modelled by what it does: a promise is pending until    *)
(* settled once; then() callbacks never run synchronously but as           *)
(* microtasks in FIFO order; a callback that throws rejects the promise    *)
(* then() returned, and the onRejected handler given to the SAME then()    *)
(* does not see that throw; a handler that returns nothing fulfils the     *)
(* derived promise with undefined.                                         *)
(***************************************************************************)
EXTENDS Integers, Sequences, FiniteSets, TLC

\* ---------------------------------------------------------------- bounds
NumUrls == 3
NumKeys == 2
NumLayers == 1
\* a request is sent, and a command executed, at most this often per url or id
MaxFetch == 2
MaxExec == 2

Urls == 1..NumUrls
\* keys of presets_: layer types and layer ids share the one map
Keys == 1..NumKeys
\* the keys that are layer ids, which getPresets and applyDefaults are called with
LayerIds == 1..NumLayers
\* the url of the preset file that is registered for layer id
LayerUrl(id) == id

\* ---------------------------------------------------------------- values
\* a preset record: opaque except for its default flag
Preset(i, d) == [id |-> i, default |-> d]

NoReason == [kind |-> "none", text |-> ""]
\* what a promise holds: an array, undefined, or a rejection reason
ListVal(l) == [tag |-> "list", items |-> l, reason |-> NoReason]
Undefined == [tag |-> "undefined", items |-> <<>>, reason |-> NoReason]
ReasonVal(r) == [tag |-> "reason", items |-> <<>>, reason |-> r]

\* promise identities: the promise a registration of url u builds, and the
\* promise initPreset builds for key k
ReqP(u) == <<"req", u>>
InitP(k) == <<"init", k>>
None == <<"none", 0>>
PromiseIds == {ReqP(u) : u \in Urls} \cup {InitP(k) : k \in Keys}

Unborn == [state |-> "unborn", value |-> Undefined]
Pending == [state |-> "pending", value |-> Undefined]

VARIABLES
  presets_,     \* this.presets_: key -> promise id, or None
  requested_,   \* this.requested_: url -> boolean
  prom,         \* promise id -> [state, value]
  callbacks,    \* promise id -> then-callbacks registered and not yet scheduled
  queue,        \* microtasks scheduled, FIFO
  reg,          \* url -> the closure of its registerPreset call
  fetch,        \* url -> the os.net.Request of its registration
  loader,       \* key -> state of ImportActionManager.loadDefaults(key)
  initArgs,     \* key -> the closure of its initPreset call
  applied,      \* settings APPLIED_DEFAULTS: key -> boolean
  executed,     \* key -> presets whose VectorLayerPreset command was executed
  errors,       \* url -> messages handleLoadError logged for its registration
  hist          \* call counters and markers the properties refer to

vars == <<presets_, requested_, prom, callbacks, queue, reg, fetch, loader,
          initArgs, applied, executed, errors, hist>>

NoReg == [type |-> 0, base |-> None, seq |-> 0, original |-> Undefined]
NoBody == [valid |-> FALSE, records |-> <<>>]
NoFetch == [state |-> "unsent", status |-> "", body |-> NoBody, reason |-> NoReason]
NoCall == [op |-> "none", id |-> 0, presets |-> <<>>, wasApplied |-> FALSE,
           applyDefault |-> FALSE]
NoInit == [applyDefault |-> FALSE, layerPresets |-> <<>>]

\* ---------------------------------------------------------------- inputs
\* what a url serves when its response is a JSON array
Body(u) == <<Preset(10 * u + 1, FALSE), Preset(10 * u + 2, TRUE)>>

\* response texts: a JSON array of preset records, or text that is no JSON
Bodies(u) == {[valid |-> TRUE, records |-> Body(u)],
              [valid |-> TRUE, records |-> <<>>],
              NoBody}

\* the reason os.net.Request rejects its promise with
FetchReasons == {[kind |-> "string", text |-> "404"]}

\* what the network answers a request with: a response text, or an error
Responses(u) ==
  {[status |-> "ok", body |-> b, reason |-> NoReason] : b \in Bodies(u)}
  \cup {[status |-> "error", body |-> NoBody, reason |-> r] : r \in FetchReasons}

\* settings PRESETS for a layer's filter key
SettingsLists == {<<>>, <<Preset(1, FALSE), Preset(2, TRUE)>>}

\* preset lists handed to applyDefaults
ApplyLists == {<<>>, <<Preset(1, FALSE)>>,
               <<Preset(1, FALSE), Preset(2, TRUE), Preset(3, TRUE)>>}

Init ==
  /\ presets_ = [k \in Keys |-> None]
  /\ requested_ = [u \in Urls |-> FALSE]
  /\ prom = [p \in PromiseIds |-> Unborn]
  /\ callbacks = [p \in PromiseIds |-> <<>>]
  /\ queue = <<>>
  /\ reg = [u \in Urls |-> NoReg]
  /\ fetch = [u \in Urls |-> NoFetch]
  /\ loader = [k \in Keys |-> "idle"]
  /\ initArgs = [k \in Keys |-> NoInit]
  /\ applied = [k \in Keys |-> FALSE]
  /\ executed = [k \in Keys |-> <<>>]
  /\ errors = [u \in Urls |-> <<>>]
  /\ hist = [fetches |-> [u \in Urls |-> 0],
             recalled |-> [u \in Urls |-> FALSE],
             retried |-> [u \in Urls |-> FALSE],
             emptyApplied |-> [k \in Keys |-> FALSE],
             loads |-> [k \in Keys |-> 0],
             last |-> NoCall]

\* ---------------------------------------------------------------- goog.Promise
Settled(p) == prom[p].state \in {"fulfilled", "rejected"}

\* resolve or reject p: its value is fixed and its then-callbacks are scheduled
SettleProm(pr, p, st, v) == [pr EXCEPT ![p] = [state |-> st, value |-> v]]
ScheduleCallbacks(q, p) == q \o callbacks[p]

\* promise.then(cb): scheduled at once on a settled promise, kept otherwise
ThenQueue(p, cb) == IF Settled(p) THEN Append(queue, cb) ELSE queue
ThenCallbacks(p, cb) ==
  IF Settled(p) THEN callbacks ELSE [callbacks EXCEPT ![p] = Append(@, cb)]

\* ---------------------------------------------------------------- helpers
\* JSON.parse(result): the array, or a thrown SyntaxError
SyntaxError == [kind |-> "error", text |-> "Unexpected token"]
JSONParse(body) ==
  IF body.valid THEN [threw |-> FALSE, value |-> ListVal(body.records)]
  ELSE [threw |-> TRUE, value |-> ReasonVal(SyntaxError)]

\* JavaScript truthiness of a promise value: arrays are truthy, undefined is not
Truthy(v) == v.tag = "list"

\* a slip of lines 70-72: the original presets first
MergePresetsOldFirst(presets, originalPresets) ==
  IF Truthy(presets) /\ Truthy(originalPresets)
  THEN ListVal(originalPresets.items \o presets.items)
  ELSE presets

\* lines 70-72: presets = presets.concat(originalPresets) when both are truthy
MergePresets(presets, originalPresets) ==
  IF Truthy(presets) /\ Truthy(originalPresets)
  THEN ListVal(presets.items \o originalPresets.items)
  ELSE presets

\* handleLoadError: the message logged
HandleLoadError(reason) ==
  LET msg == IF reason.kind = "string" THEN reason.text
             ELSE IF reason.kind = "error" THEN reason.text
             ELSE "Unspecified error."
  IN <<"Failed to load presets. Reason: ", msg>>

\* line 60 and line 61
IsRequested(req, url) == req[url]
\* a slip of line 61: the url is not marked
MarkRequestedNever(req, url) == req
MarkRequested(req, url) == [req EXCEPT ![url] = TRUE]

\* request.getPromise(): the request is sent, once more
SendRequest(f, url) == [f EXCEPT ![url].state = "inflight"]
CountFetch(h, url) == [h EXCEPT !.fetches[url] = @ + 1]

\* the request of url was answered and its callbacks have run
Handled(url) == fetch[url].state = "handled"
FetchFailed(url) == fetch[url].status = "error"
BadJSON(url) == fetch[url].status = "ok" /\ ~fetch[url].body.valid
GoodJSON(url) == fetch[url].status = "ok" /\ fetch[url].body.valid

\* a step that is no call of applyDefaults
NoApply(h) == [h EXCEPT !.last = NoCall]

\* the order of registerPreset calls that passed the requested_ gate
NextSeq == Cardinality({u \in Urls : reg[u].seq > 0}) + 1

\* ---------------------------------------------------------------- applyDefaults
\* a slip of line 176: the applied-defaults setting is not consulted
ShouldApplyAgain(presets, isApplied) == Len(presets) > 0

\* line 176: the guard of applyDefaults (presets is an array here)
ShouldApply(presets, isApplied) == Len(presets) > 0 /\ ~isApplied

\* a slip of line 177: the last record with the default flag is taken
FindLastDefault(presets) ==
  IF \E i \in 1..Len(presets) : presets[i].default
  THEN CHOOSE i \in 1..Len(presets) :
         presets[i].default /\ \A j \in (i + 1)..Len(presets) : ~presets[j].default
  ELSE 0

\* line 177: presets.find(preset => preset.default), as an index, 0 if none
FindDefault(presets) ==
  IF \E i \in 1..Len(presets) : presets[i].default
  THEN CHOOSE i \in 1..Len(presets) :
         presets[i].default /\ \A j \in 1..(i - 1) : ~presets[j].default
  ELSE 0

\* lines 181-184: the commands executed for id after applyDefaults(id, presets)
ExecutedAfter(ex, ap, id, presets) ==
  IF ShouldApply(presets, ap[id]) /\ FindDefault(presets) > 0
  THEN [ex EXCEPT ![id] = Append(@, presets[FindDefault(presets)])]
  ELSE ex

\* a slip of lines 186-187: the id is marked outside the guard of line 176
AppliedAfterAlways(ap, id, presets) == [ap EXCEPT ![id] = TRUE]

\* a slip of lines 186-187: the id is marked only when a command was executed
AppliedAfterIfFound(ap, id, presets) ==
  IF ShouldApply(presets, ap[id]) /\ FindDefault(presets) > 0
  THEN [ap EXCEPT ![id] = TRUE] ELSE ap

\* lines 186-187: the applied-defaults setting after applyDefaults(id, presets)
AppliedAfter(ap, id, presets) ==
  IF ShouldApply(presets, ap[id]) THEN [ap EXCEPT ![id] = TRUE] ELSE ap

\* applyDefaults(id, presets) was called, with id applied or not; with no presets
CountApply(h, ap, id, presets) ==
  [h EXCEPT !.last = [op |-> "applyDefaults", id |-> id, presets |-> presets,
                      wasApplied |-> ap[id], applyDefault |-> FALSE],
            !.emptyApplied[id] = @ \/ presets = <<>>]

\* os.layer.preset.addDefault: a "restore to default" record is added
AddDefault(layerPresets) == Append(layerPresets, Preset(0, FALSE))

\* ---------------------------------------------------------------- actions
\* a slip of line 64: the entry that exists is not looked at, and is replaced
RegisterPresetOverwrites(type, url) ==
  /\ hist.fetches[url] < MaxFetch
  /\ LET promise == presets_[type]
         h == [NoApply(hist) EXCEPT
                 !.recalled[url] = @ \/ requested_[url],
                 !.retried[url] = @ \/ (Handled(url) /\ ~GoodJSON(url))]
     IN IF ~IsRequested(requested_, url)
        THEN /\ requested_' = MarkRequested(requested_, url)
             /\ reg' = [reg EXCEPT ![url] = [type |-> type, base |-> None,
                                             seq |-> NextSeq, original |-> Undefined]]
             /\ fetch' = SendRequest(fetch, url)
             /\ prom' = [prom EXCEPT ![ReqP(url)] = Pending]
             /\ presets_' = [presets_ EXCEPT ![type] = ReqP(url)]
             /\ hist' = CountFetch(h, url)
             /\ UNCHANGED <<queue, callbacks>>
        ELSE /\ hist' = h
             /\ UNCHANGED <<presets_, requested_, prom, callbacks, queue, reg, fetch>>
  /\ UNCHANGED <<loader, initArgs, applied, executed, errors>>

\* a slip of line 60: a url counts as requested for the type it was requested for
RegisterPresetPerType(type, url) ==
  /\ hist.fetches[url] < MaxFetch
  /\ LET promise == presets_[type]
         h == [NoApply(hist) EXCEPT
                 !.recalled[url] = @ \/ requested_[url],
                 !.retried[url] = @ \/ (Handled(url) /\ ~GoodJSON(url))]
     IN IF ~IsRequested(requested_, url) \/ reg[url].type # type
        THEN /\ requested_' = MarkRequested(requested_, url)
             /\ IF promise # None
                THEN \* promise.then(function(originalPresets) {...}, handleLoadError)
                     /\ reg' = [reg EXCEPT ![url] = [type |-> type, base |-> promise,
                                                     seq |-> NextSeq, original |-> Undefined]]
                     /\ queue' = ThenQueue(promise, <<"merge", url>>)
                     /\ callbacks' = ThenCallbacks(promise, <<"merge", url>>)
                     /\ hist' = h
                     /\ UNCHANGED <<presets_, prom, fetch>>
                ELSE \* this.presets_[type] = request.getPromise().then(...)
                     /\ reg' = [reg EXCEPT ![url] = [type |-> type, base |-> None,
                                                     seq |-> NextSeq, original |-> Undefined]]
                     /\ fetch' = SendRequest(fetch, url)
                     /\ prom' = [prom EXCEPT ![ReqP(url)] = Pending]
                     /\ presets_' = [presets_ EXCEPT ![type] = ReqP(url)]
                     /\ hist' = CountFetch(h, url)
                     /\ UNCHANGED <<queue, callbacks>>
        ELSE /\ hist' = h
             /\ UNCHANGED <<presets_, requested_, prom, callbacks, queue, reg, fetch>>
  /\ UNCHANGED <<loader, initArgs, applied, executed, errors>>

\* registerPreset(type, url)
RegisterPreset(type, url) ==
  /\ hist.fetches[url] < MaxFetch
  /\ LET promise == presets_[type]
         h == [NoApply(hist) EXCEPT
                 !.recalled[url] = @ \/ requested_[url],
                 !.retried[url] = @ \/ (Handled(url) /\ ~GoodJSON(url))]
     IN IF ~IsRequested(requested_, url)
        THEN /\ requested_' = MarkRequested(requested_, url)
             /\ IF promise # None
                THEN \* promise.then(function(originalPresets) {...}, handleLoadError)
                     /\ reg' = [reg EXCEPT ![url] = [type |-> type, base |-> promise,
                                                     seq |-> NextSeq, original |-> Undefined]]
                     /\ queue' = ThenQueue(promise, <<"merge", url>>)
                     /\ callbacks' = ThenCallbacks(promise, <<"merge", url>>)
                     /\ hist' = h
                     /\ UNCHANGED <<presets_, prom, fetch>>
                ELSE \* this.presets_[type] = request.getPromise().then(...)
                     /\ reg' = [reg EXCEPT ![url] = [type |-> type, base |-> None,
                                                     seq |-> NextSeq, original |-> Undefined]]
                     /\ fetch' = SendRequest(fetch, url)
                     /\ prom' = [prom EXCEPT ![ReqP(url)] = Pending]
                     /\ presets_' = [presets_ EXCEPT ![type] = ReqP(url)]
                     /\ hist' = CountFetch(h, url)
                     /\ UNCHANGED <<queue, callbacks>>
        ELSE /\ hist' = h
             /\ UNCHANGED <<presets_, requested_, prom, callbacks, queue, reg, fetch>>
  /\ UNCHANGED <<loader, initArgs, applied, executed, errors>>

\* a slip of lines 66-78: thenAlways in the place of then, so that the request is
\* sent also when the existing promise was rejected
MergeCallbackFetchesAnyway(url) ==
  /\ queue # <<>> /\ Head(queue) = <<"merge", url>>
  /\ queue' = Tail(queue)
  /\ reg' = [reg EXCEPT ![url].original = prom[reg[url].base].value]
  /\ fetch' = SendRequest(fetch, url)
  /\ prom' = [prom EXCEPT ![ReqP(url)] = Pending]
  /\ hist' = CountFetch(NoApply(hist), url)
  /\ UNCHANGED errors
  /\ UNCHANGED <<presets_, requested_, callbacks, loader, initArgs, applied, executed>>

\* lines 66-78: the callbacks given to promise.then for a re-registration
MergeCallback(url) ==
  /\ queue # <<>> /\ Head(queue) = <<"merge", url>>
  /\ queue' = Tail(queue)
  /\ LET base == reg[url].base
     IN IF prom[base].state = "fulfilled"
        THEN \* var newPromise = request.getPromise().then(...)
             /\ reg' = [reg EXCEPT ![url].original = prom[base].value]
             /\ fetch' = SendRequest(fetch, url)
             /\ prom' = [prom EXCEPT ![ReqP(url)] = Pending]
             /\ hist' = CountFetch(NoApply(hist), url)
             /\ UNCHANGED errors
        ELSE \* the existing promise was rejected: handleLoadError(reason)
             /\ errors' = [errors EXCEPT ![url] = Append(@, HandleLoadError(prom[base].value.reason))]
             /\ hist' = NoApply(hist)
             /\ UNCHANGED <<reg, fetch, prom>>
  /\ UNCHANGED <<presets_, requested_, callbacks, loader, initArgs, applied, executed>>

\* The request of url is answered, with resp, and the callbacks that then() was
\* given for it run. The answer arrives as a task of its own, when no microtask
\* is left, and its callback is the one microtask it schedules.
Answered(url, resp) ==
  [fetch EXCEPT ![url] = [state |-> "handled", status |-> resp.status,
                          body |-> resp.body, reason |-> resp.reason]]

\* lines 81-84: the callbacks of the first registration of a type
FirstFetchCallback(url) ==
  /\ fetch[url].state = "inflight" /\ queue = <<>>
  /\ reg[url].base = None
  /\ \E resp \in Responses(url) :
       LET p == ReqP(url)
           parsed == JSONParse(resp.body)
       IN /\ fetch' = Answered(url, resp)
          /\ IF resp.status = "error"
             THEN \* handleLoadError returns nothing: the promise fulfils with undefined
                  /\ errors' = [errors EXCEPT ![url] = Append(@, HandleLoadError(resp.reason))]
                  /\ prom' = SettleProm(prom, p, "fulfilled", Undefined)
             ELSE \* a throw of JSON.parse rejects the promise; handleLoadError is not called
                  /\ prom' = IF parsed.threw
                             THEN SettleProm(prom, p, "rejected", parsed.value)
                             ELSE SettleProm(prom, p, "fulfilled", parsed.value)
                  /\ UNCHANGED errors
  /\ queue' = ScheduleCallbacks(queue, ReqP(url))
  /\ callbacks' = [callbacks EXCEPT ![ReqP(url)] = <<>>]
  /\ hist' = NoApply(hist)
  /\ UNCHANGED <<presets_, requested_, reg, loader, initArgs, applied, executed>>

\* a slip of lines 67-77: line 74 outside the callback, so that the new promise
\* replaces the entry also when the request fails
MergeFetchCallbackStores(url) ==
  /\ fetch[url].state = "inflight" /\ queue = <<>>
  /\ reg[url].base # None
  /\ \E resp \in Responses(url) :
       LET p == ReqP(url)
           parsed == JSONParse(resp.body)
       IN /\ fetch' = Answered(url, resp)
          /\ presets_' = [presets_ EXCEPT ![reg[url].type] = p]
          /\ IF resp.status = "error"
             THEN /\ errors' = [errors EXCEPT ![url] = Append(@, HandleLoadError(resp.reason))]
                  /\ prom' = SettleProm(prom, p, "fulfilled", Undefined)
             ELSE /\ prom' = IF parsed.threw
                             THEN SettleProm(prom, p, "rejected", parsed.value)
                             ELSE SettleProm(prom, p, "fulfilled",
                                             MergePresets(parsed.value, reg[url].original))
                  /\ UNCHANGED errors
  /\ queue' = ScheduleCallbacks(queue, ReqP(url))
  /\ callbacks' = [callbacks EXCEPT ![ReqP(url)] = <<>>]
  /\ hist' = NoApply(hist)
  /\ UNCHANGED <<requested_, reg, loader, initArgs, applied, executed>>

\* lines 67-77: the callbacks of the request of a re-registration
MergeFetchCallback(url) ==
  /\ fetch[url].state = "inflight" /\ queue = <<>>
  /\ reg[url].base # None
  /\ \E resp \in Responses(url) :
       LET p == ReqP(url)
           parsed == JSONParse(resp.body)
       IN /\ fetch' = Answered(url, resp)
          /\ IF resp.status = "error"
             THEN /\ errors' = [errors EXCEPT ![url] = Append(@, HandleLoadError(resp.reason))]
                  /\ prom' = SettleProm(prom, p, "fulfilled", Undefined)
                  /\ UNCHANGED presets_
             ELSE IF parsed.threw
                  THEN /\ prom' = SettleProm(prom, p, "rejected", parsed.value)
                       /\ UNCHANGED <<presets_, errors>>
                  ELSE /\ presets_' = [presets_ EXCEPT ![reg[url].type] = p]
                       /\ prom' = SettleProm(prom, p, "fulfilled",
                                             MergePresets(parsed.value, reg[url].original))
                       /\ UNCHANGED errors
  /\ queue' = ScheduleCallbacks(queue, ReqP(url))
  /\ callbacks' = [callbacks EXCEPT ![ReqP(url)] = <<>>]
  /\ hist' = NoApply(hist)
  /\ UNCHANGED <<requested_, reg, loader, initArgs, applied, executed>>

\* initPreset(id, opt_applyDefault), with the PRESETS setting of the layer
InitPreset(id, opt_applyDefault, setting) ==
  /\ initArgs' = [initArgs EXCEPT ![id] =
                    [applyDefault |-> opt_applyDefault,
                     layerPresets |-> IF Len(setting) > 0 THEN AddDefault(setting)
                                      ELSE setting]]
  /\ loader' = [loader EXCEPT ![id] = "loading"]
  /\ prom' = [prom EXCEPT ![InitP(id)] = Pending]
  /\ presets_' = [presets_ EXCEPT ![id] = InitP(id)]

\* getPresets(id, opt_applyDefault) was called; loadDefaults(id) was, if loads
CountGet(h, id, opt_applyDefault, loads) ==
  [h EXCEPT !.last = [op |-> "getPresets", id |-> id, presets |-> <<>>,
                      wasApplied |-> FALSE, applyDefault |-> opt_applyDefault],
            !.loads[id] = IF loads THEN @ + 1 ELSE @]

\* a slip of line 115: initPreset is called whether there is an entry or not
GetPresetsAlwaysInit(id, opt_applyDefault) ==
  /\ \E setting \in SettingsLists : InitPreset(id, opt_applyDefault, setting)
  /\ hist' = CountGet(hist, id, opt_applyDefault, TRUE)
  /\ UNCHANGED <<requested_, callbacks, queue, reg, fetch, applied, executed, errors>>

\* a slip of lines 115-117: opt_applyDefault of a later call reaches the callback
\* of the entry that exists
GetPresetsLateFlag(id, opt_applyDefault) ==
  /\ IF presets_[id] = None
     THEN \E setting \in SettingsLists : InitPreset(id, opt_applyDefault, setting)
     ELSE /\ initArgs' = [initArgs EXCEPT ![id].applyDefault = @ \/ opt_applyDefault]
          /\ UNCHANGED <<loader, prom, presets_>>
  /\ hist' = CountGet(hist, id, opt_applyDefault, presets_[id] = None)
  /\ UNCHANGED <<requested_, callbacks, queue, reg, fetch, applied, executed, errors>>

\* getPresets(id, opt_applyDefault)
GetPresets(id, opt_applyDefault) ==
  /\ IF presets_[id] = None
     THEN \E setting \in SettingsLists : InitPreset(id, opt_applyDefault, setting)
     ELSE UNCHANGED <<initArgs, loader, prom, presets_>>
  /\ hist' = CountGet(hist, id, opt_applyDefault, presets_[id] = None)
  /\ UNCHANGED <<requested_, callbacks, queue, reg, fetch, applied, executed, errors>>

\* a slip of line 152: then(cb) in the place of thenAlways(cb)
ThenOnFulfilled(q, id, outcome) ==
  IF outcome = "ok" THEN Append(q, <<"init", id>>) ELSE q

\* line 152: faPromise.thenAlways(cb) schedules cb whatever the outcome
ThenAlways(q, id, outcome) == Append(q, <<"init", id>>)

\* loadDefaults(id) settles, with success or failure
LoaderSettle(id) ==
  /\ loader[id] = "loading"
  /\ \E outcome \in {"ok", "failed"} :
       /\ loader' = [loader EXCEPT ![id] = outcome]
       /\ queue' = ThenAlways(queue, id, outcome)
  /\ hist' = NoApply(hist)
  /\ UNCHANGED <<presets_, requested_, prom, callbacks, reg, fetch, initArgs,
                 applied, executed, errors>>

\* a slip of lines 153-155: applyDefaults is called whatever opt_applyDefault is
InitCallbackAlwaysApplies(id) ==
  /\ queue # <<>> /\ Head(queue) = <<"init", id>>
  /\ executed' = ExecutedAfter(executed, applied, id, initArgs[id].layerPresets)
  /\ applied' = AppliedAfter(applied, id, initArgs[id].layerPresets)
  /\ hist' = CountApply(hist, applied, id, initArgs[id].layerPresets)
  /\ prom' = SettleProm(prom, InitP(id), "fulfilled", ListVal(initArgs[id].layerPresets))
  /\ queue' = ScheduleCallbacks(Tail(queue), InitP(id))
  /\ callbacks' = [callbacks EXCEPT ![InitP(id)] = <<>>]
  /\ UNCHANGED <<presets_, requested_, reg, fetch, loader, initArgs, errors>>

\* lines 152-158: the thenAlways callback of initPreset
InitCallback(id) ==
  /\ queue # <<>> /\ Head(queue) = <<"init", id>>
  /\ IF initArgs[id].applyDefault
     THEN /\ executed' = ExecutedAfter(executed, applied, id, initArgs[id].layerPresets)
          /\ applied' = AppliedAfter(applied, id, initArgs[id].layerPresets)
          /\ hist' = CountApply(hist, applied, id, initArgs[id].layerPresets)
     ELSE /\ hist' = NoApply(hist)
          /\ UNCHANGED <<executed, applied>>
  /\ prom' = SettleProm(prom, InitP(id), "fulfilled", ListVal(initArgs[id].layerPresets))
  /\ queue' = ScheduleCallbacks(Tail(queue), InitP(id))
  /\ callbacks' = [callbacks EXCEPT ![InitP(id)] = <<>>]
  /\ UNCHANGED <<presets_, requested_, reg, fetch, loader, initArgs, errors>>

\* applyDefaults(id, presets), called directly
ApplyDefaults(id, presets) ==
  /\ Len(executed[id]) < MaxExec
  /\ executed' = ExecutedAfter(executed, applied, id, presets)
  /\ applied' = AppliedAfter(applied, id, presets)
  /\ hist' = CountApply(hist, applied, id, presets)
  /\ UNCHANGED <<presets_, requested_, prom, callbacks, queue, reg, fetch, loader,
                 initArgs, errors>>

\* Urls and keys are opaque names: they are numbered in the order of their first
\* use, which leaves out only states that differ from a reachable one by renaming.
UrlInOrder(url) == IF url = 1 THEN TRUE ELSE requested_[url - 1]
KeyInOrder(k) == IF k = 1 THEN TRUE ELSE presets_[k - 1] # None

Next ==
  \/ \E type \in Keys, url \in Urls :
       KeyInOrder(type) /\ UrlInOrder(url) /\ RegisterPreset(type, url)
  \/ \E url \in Urls : MergeCallback(url)
  \/ \E url \in Urls : FirstFetchCallback(url)
  \/ \E url \in Urls : MergeFetchCallback(url)
  \/ \E id \in LayerIds, flag \in BOOLEAN : GetPresets(id, flag)
  \/ \E id \in LayerIds : LoaderSettle(id)
  \/ \E id \in LayerIds : InitCallback(id)
  \/ \E id \in LayerIds, presets \in ApplyLists : ApplyDefaults(id, presets)

Spec == Init /\ [][Next]_vars

\* registrations alone: no entry is created by getPresets
NextRegister ==
  \/ \E type \in Keys, url \in Urls :
       KeyInOrder(type) /\ UrlInOrder(url) /\ RegisterPreset(type, url)
  \/ \E url \in Urls : MergeCallback(url)
  \/ \E url \in Urls : FirstFetchCallback(url)
  \/ \E url \in Urls : MergeFetchCallback(url)

RegisterSpec == Init /\ [][NextRegister]_vars

\* registrations where a url that was requested comes again only with another type
OtherType(type, url) == IF requested_[url] THEN reg[url].type # type ELSE TRUE

NextDedup ==
  \/ \E type \in Keys, url \in Urls :
       /\ KeyInOrder(type) /\ UrlInOrder(url) /\ OtherType(type, url)
       /\ RegisterPreset(type, url)
  \/ \E url \in Urls : MergeCallback(url)
  \/ \E url \in Urls : FirstFetchCallback(url)
  \/ \E url \in Urls : MergeFetchCallback(url)

DedupSpec == Init /\ [][NextDedup]_vars

\* a preset file registered under the key of each layer, and lazy initialisation
\* of these keys
NextLazy ==
  \/ \E id \in LayerIds : RegisterPreset(id, LayerUrl(id))
  \/ \E id \in LayerIds : MergeCallback(LayerUrl(id))
  \/ \E id \in LayerIds : FirstFetchCallback(LayerUrl(id))
  \/ \E id \in LayerIds : MergeFetchCallback(LayerUrl(id))
  \/ \E id \in LayerIds, flag \in BOOLEAN : GetPresets(id, flag)
  \/ \E id \in LayerIds : LoaderSettle(id)
  \/ \E id \in LayerIds : InitCallback(id)

LazySpec == Init /\ [][NextLazy]_vars

\* lazy initialisation and the default-preset policy, without registrations
NextDefaults ==
  \/ \E id \in LayerIds, flag \in BOOLEAN : GetPresets(id, flag)
  \/ \E id \in LayerIds : LoaderSettle(id)
  \/ \E id \in LayerIds : InitCallback(id)
  \/ \E id \in LayerIds, presets \in ApplyLists : ApplyDefaults(id, presets)

DefaultsSpec == Init /\ [][NextDefaults]_vars

\* ---------------------------------------------------------------- properties
Registered(u) == reg[u].seq > 0
InSeq(x, q) == \E i \in 1..Len(q) : q[i] = x

\* the key a promise was built for
KeyOf(p) == IF p[1] = "req" THEN reg[p[2]].type ELSE p[2]
\* the place of a promise in the order of registrations (0: built by initPreset)
SeqOf(p) == IF p[1] = "req" THEN reg[p[2]].seq ELSE 0

\* the registration of u has nothing left to wait for before its request is sent:
\* it sent the request at once, or the promise it chained to has settled and the
\* callback it gave to then() has run
NothingToAwait(u) ==
  /\ Registered(u)
  /\ IF reg[u].base = None THEN TRUE
     ELSE Settled(reg[u].base) /\ ~InSeq(<<"merge", u>>, queue)

\* C1: registerPreset called twice with the same url sends exactly one request for
\* it, whatever the state of the entry of the type: never two, and one as soon as
\* the registration has nothing left to wait for.
C1_ExactlyOneFetch ==
  \A u \in Urls :
    /\ hist.fetches[u] <= 1
    /\ (hist.recalled[u] /\ NothingToAwait(u)) => hist.fetches[u] = 1

\* the registrations of type t
RegistrationsOf(t) == {u \in Urls : Registered(u) /\ reg[u].type = t}

\* u1 then u2 were registered for one type, nothing else was, and both requests
\* were answered with JSON arrays
TwoRegistered(u1, u2) ==
  /\ u1 # u2
  /\ Registered(u1) /\ reg[u1].base = None
  /\ reg[u2].base = ReqP(u1)
  /\ RegistrationsOf(reg[u1].type) = {u1, u2}
  /\ Handled(u1) /\ GoodJSON(u1)
  /\ Handled(u2) /\ GoodJSON(u2)

\* C2: after registerPreset(type, u1) and registerPreset(type, u2), both answered
\* with arrays A and B, the entry of type resolves to B ++ A.
C2_NewestFirst ==
  \A u1, u2 \in Urls :
    TwoRegistered(u1, u2) =>
      /\ presets_[reg[u1].type] = ReqP(u2)
      /\ prom[ReqP(u2)] = [state |-> "fulfilled",
                           value |-> ListVal(fetch[u2].body.records \o fetch[u1].body.records)]

C2_Witness ==
  \E u1, u2 \in Urls :
    /\ TwoRegistered(u1, u2)
    /\ fetch[u1].body.records # <<>> /\ fetch[u2].body.records # <<>>
    /\ prom[presets_[reg[u1].type]].value.items = Body(u2) \o Body(u1)

\* C3: the entry of a key is only ever replaced by the promise of a later
\* registration, never by the promise of an earlier one.
C3_LaterSupersedes ==
  [][\A k \in Keys :
       (presets_[k] # None /\ presets_'[k] # presets_[k])
         => SeqOf(presets_'[k]) > SeqOf(presets_[k])]_vars

\* C7: when a request is answered with text that is no JSON, handleLoadError has
\* logged a message for it and the entry of the type is no failed promise.
C7_ParseFailureLogged ==
  \A u \in Urls :
    (Handled(u) /\ BadJSON(u)) =>
      /\ errors[u] # <<>>
      /\ prom[presets_[reg[u].type]].state # "rejected"

\* C8: a url once requested stays requested, and no url is requested twice.
C8_RequestedOnlyGrows ==
  [][\A u \in Urls :
       /\ requested_[u] => requested_'[u]
       /\ hist'.fetches[u] <= 1]_vars

\* registerPreset was called again for a url whose request had failed, and it
\* was not sent again
C8_Witness ==
  \E u \in Urls : hist.retried[u] /\ requested_[u] /\ hist.fetches[u] = 1

\* the promises of key k that are not settled: the entry, or a replacement that
\* a registration is building
Outstanding(k) == {p \in PromiseIds : prom[p].state = "pending" /\ KeyOf(p) = k}

\* C9: at most one promise per key is outstanding.
C9_OneOutstanding == \A k \in Keys : Cardinality(Outstanding(k)) <= 1

\* C10: an entry that is fulfilled holds an array.
C10_ResolvesToList ==
  \A k \in Keys :
    (presets_[k] # None /\ prom[presets_[k]].state = "fulfilled")
      => prom[presets_[k]].value.tag = "list"

\* C4: the default-preset command is executed at most once per layer id.
C4_AtMostOnce == \A id \in Keys : Len(executed[id]) <= 1

\* applyDefaults was called for an applied id with a list that has a default
\* record, after the command of the id had been executed
C4_Witness ==
  /\ hist.last.op = "applyDefaults"
  /\ hist.last.wasApplied
  /\ FindDefault(hist.last.presets) > 0
  /\ Len(executed[hist.last.id]) = 1

\* C5 as the spec states it: applyDefaults with no presets marks the id applied.
C5_EmptyMarksApplied == \A id \in Keys : hist.emptyApplied[id] => applied[id]

\* C5 as amended: applyDefaults with no presets executes no command and leaves the
\* applied-defaults setting as it was; applyDefaults for an id that is not applied,
\* with a list that has a default record, executes the command of the first one.
C5_EmptyLeavesUnapplied ==
  [][hist'.last.op = "applyDefaults" =>
       LET id == hist'.last.id
           presets == hist'.last.presets
       IN /\ presets = <<>> => (applied' = applied /\ executed' = executed)
          /\ (~applied[id] /\ FindDefault(presets) > 0)
               => executed'[id] = Append(executed[id], presets[FindDefault(presets)])]_vars

\* after applyDefaults(id, <<>>), a call with a default record executed its command
C5_Witness ==
  /\ hist.last.op = "applyDefaults"
  /\ hist.emptyApplied[hist.last.id]
  /\ ~hist.last.wasApplied
  /\ FindDefault(hist.last.presets) > 0
  /\ Len(executed[hist.last.id]) = 1

\* C6: the promise getPresets creates for an id without entry is pending as long
\* as loadDefaults(id) has not settled, and is fulfilled with the presets of the
\* layer once it has, with success or failure, and its callback has run.
C6_AwaitsLoader ==
  \A id \in LayerIds :
    /\ loader[id] = "idle" => (presets_[id] = None /\ prom[InitP(id)].state = "unborn")
    /\ loader[id] # "idle" => presets_[id] = InitP(id)
    /\ loader[id] = "loading" => prom[InitP(id)].state = "pending"
    /\ loader[id] \in {"ok", "failed"} =>
         IF InSeq(<<"init", id>>, queue)
         THEN prom[InitP(id)].state = "pending"
         ELSE prom[InitP(id)] = [state |-> "fulfilled",
                                 value |-> ListVal(initArgs[id].layerPresets)]

C6_Witness ==
  \E id \in LayerIds : loader[id] = "failed" /\ prom[InitP(id)].state = "fulfilled"

\* the arrays the urls of S were answered with, the latest registration first
RECURSIVE ConcatNewestFirst(_)
ConcatNewestFirst(S) ==
  IF S = {} THEN <<>>
  ELSE LET u == CHOOSE x \in S : \A y \in S : reg[y].seq <= reg[x].seq
       IN fetch[u].body.records \o ConcatNewestFirst(S \ {u})

\* C11: once two or more registrations of a type have all been answered with
\* arrays, the entry of the type resolves to all of the arrays, the latest
\* registration first; no array is lost.
C11_NoListLost ==
  \A t \in Keys :
    LET S == RegistrationsOf(t)
    IN (Cardinality(S) >= 2 /\ queue = <<>> /\ \A u \in S : Handled(u) /\ GoodJSON(u))
         => /\ prom[presets_[t]].state = "fulfilled"
            /\ prom[presets_[t]].value = ListVal(ConcatNewestFirst(S))

\* the re-registrations of type t
ReRegistrationsOf(t) == {u \in RegistrationsOf(t) : reg[u].base # None}

\* C12: when the request of a re-registration fails, handleLoadError logs it once
\* and the step leaves the entry and its promise as they were; with no other
\* re-registration of the type, the entry is the promise that was there at the
\* call, fulfilled with what it held.
C12_FailedMergeKeepsEntry ==
  /\ [](\A u \in Urls :
          (reg[u].base # None /\ Handled(u) /\ FetchFailed(u)) =>
            /\ Len(errors[u]) = 1
            /\ ReRegistrationsOf(reg[u].type) = {u} =>
                 /\ presets_[reg[u].type] = reg[u].base
                 /\ prom[reg[u].base] = [state |-> "fulfilled", value |-> reg[u].original])
  /\ [][\A u \in Urls :
          (reg[u].base # None /\ ~Handled(u) /\ fetch'[u].state = "handled"
             /\ fetch'[u].status = "error") =>
            /\ presets_' = presets_
            /\ prom'[presets_[reg[u].type]] = prom[presets_[reg[u].type]]
            /\ errors'[u] = Append(errors[u], HandleLoadError(fetch'[u].reason))]_vars

\* a re-registration failed after an array had been loaded for its type
C12_Witness ==
  \E u \in Urls :
    /\ reg[u].base # None /\ Handled(u) /\ FetchFailed(u)
    /\ ReRegistrationsOf(reg[u].type) = {u}
    /\ prom[presets_[reg[u].type]].value.items # <<>>

\* the indices of the records of presets that carry the default flag
Defaults(presets) == {i \in 1..Len(presets) : presets[i].default}

\* C13: applyDefaults(id, presets) for an id that is not applied, with presets
\* that are not empty and hold no default record, marks the id applied and
\* executes nothing; for an applied id no call executes a command, whatever
\* its list.
C13_MarkedWithoutDefault ==
  [][\A id \in Keys :
       /\ (/\ hist'.last.op = "applyDefaults" /\ hist'.last.id = id
           /\ ~hist'.last.wasApplied
           /\ hist'.last.presets # <<>> /\ Defaults(hist'.last.presets) = {})
            => (applied'[id] /\ executed'[id] = executed[id])
       /\ applied[id] => (applied'[id] /\ executed'[id] = executed[id])]_vars

\* a list with a default record came for an id that a list without one had marked
C13_Witness ==
  /\ hist.last.op = "applyDefaults"
  /\ hist.last.wasApplied
  /\ Defaults(hist.last.presets) # {}
  /\ applied[hist.last.id]
  /\ executed[hist.last.id] = <<>>

\* C14: the promise of initPreset(id, opt_applyDefault) settles after
\* loadDefaults(id) has settled, fulfilled with the presets of the layer; the step
\* that fulfils it has applied the defaults of the layer when opt_applyDefault
\* is set, and has executed no command and left the applied-defaults setting as
\* it was when it is not.
C14_AppliesBeforeResolving ==
  [][\A id \in Keys :
       (prom[InitP(id)].state = "pending" /\ prom'[InitP(id)].state # "pending") =>
         LET layerPresets == initArgs[id].layerPresets
         IN /\ loader[id] \in {"ok", "failed"}
            /\ prom'[InitP(id)] = [state |-> "fulfilled", value |-> ListVal(layerPresets)]
            /\ initArgs[id].applyDefault =>
                 /\ applied'[id] = (applied[id] \/ layerPresets # <<>>)
                 /\ executed'[id] =
                      IF ~applied[id] /\ Defaults(layerPresets) # {}
                      THEN Append(executed[id], layerPresets[FindDefault(layerPresets)])
                      ELSE executed[id]
            /\ ~initArgs[id].applyDefault =>
                 (executed' = executed /\ applied' = applied)]_vars

\* initPreset(id, true) has applied the default of the layer and resolved
C14_Witness ==
  \E id \in LayerIds :
    /\ initArgs[id].applyDefault
    /\ loader[id] \in {"ok", "failed"}
    /\ prom[InitP(id)] = [state |-> "fulfilled",
                          value |-> ListVal(initArgs[id].layerPresets)]
    /\ hist.last = [op |-> "applyDefaults", id |-> id,
                    presets |-> initArgs[id].layerPresets, wasApplied |-> FALSE,
                    applyDefault |-> FALSE]
    /\ Len(executed[id]) = 1

\* C17: a step executes at most one command for an id, and the command is that
\* of the first record in list order that carries the default flag.
C17_FirstDefaultOnly ==
  [][\A id \in Keys :
       executed'[id] # executed[id] =>
         /\ hist'.last.op = "applyDefaults" /\ hist'.last.id = id
         /\ \E i \in Defaults(hist'.last.presets) :
              /\ \A j \in Defaults(hist'.last.presets) : i <= j
              /\ executed'[id] = Append(executed[id], hist'.last.presets[i])]_vars

\* a list with several default records came, and the first one was executed
C17_Witness ==
  /\ hist.last.op = "applyDefaults"
  /\ ~hist.last.wasApplied
  /\ Cardinality(Defaults(hist.last.presets)) >= 2
  /\ \E i \in Defaults(hist.last.presets) :
       /\ \A j \in Defaults(hist.last.presets) : i <= j
       /\ executed[hist.last.id] = <<hist.last.presets[i]>>

\* the entry of key k was created by registerPreset
RegisteredFirst(k) == \E u \in Urls : Registered(u) /\ reg[u].type = k /\ reg[u].base = None

\* C15: getPresets(id) for a key that has an entry, whether initPreset or
\* registerPreset made it, leaves the entry and its promise as they are and does
\* not call initPreset; loadDefaults is called at most once for an id, and never
\* for a key whose entry registerPreset created.
C15_GetPresetsCached ==
  /\ [](\A id \in Keys :
          /\ hist.loads[id] <= 1
          /\ RegisteredFirst(id) => (hist.loads[id] = 0 /\ loader[id] = "idle"))
  /\ [][(hist'.last.op = "getPresets" /\ presets_[hist'.last.id] # None) =>
          /\ UNCHANGED <<presets_, prom, loader, initArgs, callbacks, queue>>
          /\ hist'.loads = hist.loads]_vars

\* getPresets was called for a key whose entry registerPreset had created
C15_Witness ==
  /\ hist.last.op = "getPresets"
  /\ RegisteredFirst(hist.last.id)
  /\ presets_[hist.last.id] = ReqP(LayerUrl(hist.last.id))
  /\ hist.loads[hist.last.id] = 0

\* C19: getPresets(id, true) for a key that has an entry executes no command and
\* leaves the applied-defaults setting and the flag the entry was created with as
\* they are; no command is ever executed for a key whose entry was created by
\* registerPreset or by getPresets without the flag.
C19_FlagOnlyAtCreation ==
  /\ [](\A id \in Keys :
          (presets_[id] # None /\ ~initArgs[id].applyDefault) =>
            (executed[id] = <<>> /\ ~applied[id]))
  /\ [][(/\ hist'.last.op = "getPresets" /\ hist'.last.applyDefault
         /\ presets_[hist'.last.id] # None) =>
          UNCHANGED <<executed, applied, initArgs>>]_vars

\* getPresets(id, true) came for an entry that getPresets(id) had created for a
\* layer with a default preset
C19_Witness ==
  /\ hist.last.op = "getPresets" /\ hist.last.applyDefault
  /\ presets_[hist.last.id] = InitP(hist.last.id)
  /\ ~initArgs[hist.last.id].applyDefault
  /\ Defaults(initArgs[hist.last.id].layerPresets) # {}
  /\ executed[hist.last.id] = <<>>

\* C16: as long as the request of the first registration of a type is not
\* answered, the entry of the type is the promise of that registration, and it is
\* pending; no later registerPreset replaces or settles it.
C16_StaysPending ==
  \A u \in Urls :
    (Registered(u) /\ reg[u].base = None /\ fetch[u].state = "inflight") =>
      (presets_[reg[u].type] = ReqP(u) /\ prom[ReqP(u)] = Pending)

\* another url was registered for the type while the first request is in flight
C16_Witness ==
  \E u, v \in Urls :
    /\ reg[u].base = None /\ fetch[u].state = "inflight"
    /\ reg[v].base = ReqP(u) /\ reg[v].type = reg[u].type
    /\ hist.recalled[v]

\* C18: the url of a re-registration is marked requested; its request is not sent
\* while the promise it was chained on is pending, is sent once when that promise
\* is fulfilled, and is never sent when it is rejected, whatever calls come
\* later: handleLoadError logs the rejection once.
C18_FetchAwaitsEntry ==
  \A u \in Urls :
    reg[u].base # None =>
      /\ requested_[u]
      /\ hist.fetches[u] <= 1
      /\ hist.fetches[u] = 1 <=> fetch[u].state # "unsent"
      /\ hist.fetches[u] = 1 => prom[reg[u].base].state = "fulfilled"
      /\ prom[reg[u].base].state = "pending" => errors[u] = <<>>
      /\ (prom[reg[u].base].state = "fulfilled" /\ NothingToAwait(u)) => hist.fetches[u] = 1
      /\ (prom[reg[u].base].state = "rejected" /\ ~InSeq(<<"merge", u>>, queue)) =>
           errors[u] = <<HandleLoadError(prom[reg[u].base].value.reason)>>

\* registerPreset came again for a url whose registration was chained on a
\* promise that rejected: no request was sent
C18_Witness ==
  \E u \in Urls :
    /\ reg[u].base # None /\ prom[reg[u].base].state = "rejected"
    /\ hist.recalled[u] /\ hist.fetches[u] = 0
    /\ Len(errors[u]) = 1

\* C20: registerPreset(t2, url) for a url that was requested with another type
\* sends no request and leaves the entries (none for t2, if there was none), the
\* promises and the requested set as they were; the url stays registered with
\* the type it was first requested with.
C20_OtherTypeNoOp ==
  [][\A u \in Urls :
       /\ requested_[u] =>
            /\ requested_'[u]
            /\ reg'[u].type = reg[u].type /\ reg'[u].base = reg[u].base
            /\ hist'.fetches[u] <= 1
       /\ (~hist.recalled[u] /\ hist'.recalled[u]) =>
            /\ UNCHANGED <<presets_, requested_, prom, callbacks, queue, reg, fetch, errors>>
            /\ hist'.fetches = hist.fetches]_vars

\* a url requested with one type came again with a type that has no entry
C20_Witness ==
  \E u \in Urls :
    /\ hist.recalled[u] /\ hist.fetches[u] = 1
    /\ \A t \in Keys \ {reg[u].type} : presets_[t] = None
====
